---- MODULE Spec2Model ----
(***************************************************************************)
(* The protocol session layer of relay-js: the per-connection              *)
(* RelayEventAdapter (request/response correlation over the websocket's    *)
(* message stream, event dispatch through its EventEmitter), the           *)
(* connection router of initializeRelaySdk (shouldHandle and the           *)
(* `connection` handler) and the heartbeat interval.                       *)
(*                                                                         *)
(* Strings the code takes apart or puts together (type tags, urls,         *)
(* registration paths) carry their characters in CharsOf, so that the      *)
(* regular expression, slice(1), replace and the template literals are     *)
(* computed on the characters, as the code computes them.                  *)
(***************************************************************************)
EXTENDS Integers, Sequences, FiniteSets, TLC

(* ------------------------------ bounds -------------------------------- *)

\* request slots: the number of _sendReceive calls a behaviour may issue
NumReqs == 2
\* listeners one emitter holds
MaxListeners == 2
\* heartbeat ticks in a behaviour
MaxTicks == 3

(* ----------------------------- strings -------------------------------- *)

\* Every string the code takes apart or puts together, with its characters.
CharsOf ==
  "" :>
      <<>> @@
  "start" :>
      <<"s", "t", "a", "r", "t">> @@
  "button" :>
      <<"b", "u", "t", "t", "o", "n">> @@
  "timer" :>
      <<"t", "i", "m", "e", "r">> @@
  "notification" :>
      <<"n", "o", "t", "i", "f", "i", "c", "a", "t", "i", "o",
        "n">> @@
  "call_connected" :>
      <<"c", "a", "l", "l", "_", "c", "o", "n", "n", "e", "c",
        "t", "e", "d">> @@
  "call_disconnected" :>
      <<"c", "a", "l", "l", "_", "d", "i", "s", "c", "o", "n",
        "n", "e", "c", "t", "e", "d">> @@
  "call_failed" :>
      <<"c", "a", "l", "l", "_", "f", "a", "i", "l", "e", "d">> @@
  "call_received" :>
      <<"c", "a", "l", "l", "_", "r", "e", "c", "e", "i", "v",
        "e", "d">> @@
  "call_start_request" :>
      <<"c", "a", "l", "l", "_", "s", "t", "a", "r", "t", "_",
        "r", "e", "q", "u", "e", "s", "t">> @@
  "error" :>
      <<"e", "r", "r", "o", "r">> @@
  "foo" :>
      <<"f", "o", "o">> @@
  "say" :>
      <<"s", "a", "y">> @@
  "play" :>
      <<"p", "l", "a", "y">> @@
  "wf_api_" :>
      <<"w", "f", "_", "a", "p", "i", "_">> @@
  "_response" :>
      <<"_", "r", "e", "s", "p", "o", "n", "s", "e">> @@
  "_event" :>
      <<"_", "e", "v", "e", "n", "t">> @@
  "wf_api_start_event" :>
      <<"w", "f", "_", "a", "p", "i", "_", "s", "t", "a", "r",
        "t", "_", "e", "v", "e", "n", "t">> @@
  "wf_api_button_event" :>
      <<"w", "f", "_", "a", "p", "i", "_", "b", "u", "t", "t",
        "o", "n", "_", "e", "v", "e", "n", "t">> @@
  "wf_api_timer_event" :>
      <<"w", "f", "_", "a", "p", "i", "_", "t", "i", "m", "e",
        "r", "_", "e", "v", "e", "n", "t">> @@
  "wf_api_notification_event" :>
      <<"w", "f", "_", "a", "p", "i", "_", "n", "o", "t", "i",
        "f", "i", "c", "a", "t", "i", "o", "n", "_", "e", "v",
        "e", "n", "t">> @@
  "wf_api_call_connected_event" :>
      <<"w", "f", "_", "a", "p", "i", "_", "c", "a", "l", "l",
        "_", "c", "o", "n", "n", "e", "c", "t", "e", "d", "_",
        "e", "v", "e", "n", "t">> @@
  "wf_api_call_disconnected_event" :>
      <<"w", "f", "_", "a", "p", "i", "_", "c", "a", "l", "l",
        "_", "d", "i", "s", "c", "o", "n", "n", "e", "c", "t",
        "e", "d", "_", "e", "v", "e", "n", "t">> @@
  "wf_api_call_failed_event" :>
      <<"w", "f", "_", "a", "p", "i", "_", "c", "a", "l", "l",
        "_", "f", "a", "i", "l", "e", "d", "_", "e", "v", "e",
        "n", "t">> @@
  "wf_api_call_received_event" :>
      <<"w", "f", "_", "a", "p", "i", "_", "c", "a", "l", "l",
        "_", "r", "e", "c", "e", "i", "v", "e", "d", "_", "e",
        "v", "e", "n", "t">> @@
  "wf_api_call_start_request_event" :>
      <<"w", "f", "_", "a", "p", "i", "_", "c", "a", "l", "l",
        "_", "s", "t", "a", "r", "t", "_", "r", "e", "q", "u",
        "e", "s", "t", "_", "e", "v", "e", "n", "t">> @@
  "wf_api_error_event" :>
      <<"w", "f", "_", "a", "p", "i", "_", "e", "r", "r", "o",
        "r", "_", "e", "v", "e", "n", "t">> @@
  "wf_api_foo_event" :>
      <<"w", "f", "_", "a", "p", "i", "_", "f", "o", "o", "_",
        "e", "v", "e", "n", "t">> @@
  "wf_api__event" :>
      <<"w", "f", "_", "a", "p", "i", "_", "_", "e", "v", "e",
        "n", "t">> @@
  "wf_api_say_response" :>
      <<"w", "f", "_", "a", "p", "i", "_", "s", "a", "y", "_",
        "r", "e", "s", "p", "o", "n", "s", "e">> @@
  "wf_api_play_response" :>
      <<"w", "f", "_", "a", "p", "i", "_", "p", "l", "a", "y",
        "_", "r", "e", "s", "p", "o", "n", "s", "e">> @@
  "wf_api_error_response" :>
      <<"w", "f", "_", "a", "p", "i", "_", "e", "r", "r", "o",
        "r", "_", "r", "e", "s", "p", "o", "n", "s", "e">> @@
  "junk" :>
      <<"j", "u", "n", "k">> @@
  "/" :>
      <<"/">> @@
  "a" :>
      <<"a">> @@
  "b" :>
      <<"b">> @@
  "/a" :>
      <<"/", "a">> @@
  "/b" :>
      <<"/", "b">> @@
  "//b" :>
      <<"/", "/", "b">> @@
  "__default_relay_workflow__" :>
      <<"_", "_", "d", "e", "f", "a", "u", "l", "t", "_", "r",
        "e", "l", "a", "y", "_", "w", "o", "r", "k", "f", "l",
        "o", "w", "_", "_">> @@
  "/__default_relay_workflow__" :>
      <<"/", "_", "_", "d", "e", "f", "a", "u", "l", "t", "_",
        "r", "e", "l", "a", "y", "_", "w", "o", "r", "k", "f",
        "l", "o", "w", "_", "_">>

Text == DOMAIN CharsOf
Chars(s) == CharsOf[s]
\* the string with the given characters
ToText(cs) == CHOOSE s \in Text : CharsOf[s] = cs

LowerAlpha ==
  {"a","b","c","d","e","f","g","h","i","j","k","l","m",
   "n","o","p","q","r","s","t","u","v","w","x","y","z"}

\* enum Event
START == "start"
BUTTON == "button"
TIMER == "timer"
NOTIFICATION == "notification"
CALL_CONNECTED == "call_connected"
CALL_DISCONNECTED == "call_disconnected"
CALL_FAILED == "call_failed"
CALL_RECEIVED == "call_received"
CALL_START_REQUEST == "call_start_request"

Event ==
  {START, BUTTON, TIMER, NOTIFICATION, CALL_CONNECTED, CALL_DISCONNECTED,
   CALL_FAILED, CALL_RECEIVED, CALL_START_REQUEST}

\* the name Node's EventEmitter treats specially, and a name outside the enum
ERROR_NAME == "error"
OTHER_NAME == "foo"

\* the names a peer may put in an event tag
EventNames == Event \cup {ERROR_NAME, OTHER_NAME, ""}

\* request kinds the adapter's commands pass to _sendReceive
SAY == "say"
PLAY == "play"
Kinds == {SAY, PLAY}
\* the request kind of terminate(), which goes through _send alone
TERMINATE == "terminate"

\* `wf_api_${type}_response`, for each request kind
ResponseTypeOf ==
  [type \in Kinds |->
     ToText(Chars("wf_api_") \o Chars(type) \o Chars("_response"))]
ResponseType(type) == ResponseTypeOf[type]

\* the tag the peer gives an event of that name: `wf_api_${name}_event`
EventTypeOf ==
  [name \in EventNames |->
     ToText(Chars("wf_api_") \o Chars(name) \o Chars("_event"))]
EventType(name) == EventTypeOf[name]
ERROR_RESPONSE == "wf_api_error_response"

\* a _type that is absent or the empty string: falsy either way
NoType == ""
\* a tag that follows no pattern of the protocol
JUNK_TYPE == "junk"

\* the result of String.prototype.match that found nothing
NoMatch == [matched |-> FALSE, name |-> ""]

\* /^wf_api_([a-z]*)_event$/ applied to a string: the capture group, or no
\* match
RegexMatch(type) ==
  LET t == Chars(type)
      prefix == Chars("wf_api_")
      suffix == Chars("_event")
      n == Len(t)
      lo == Len(prefix) + 1
      hi == n - Len(suffix)
  IN  IF /\ n >= Len(prefix) + Len(suffix)
         /\ SubSeq(t, 1, Len(prefix)) = prefix
         /\ SubSeq(t, hi + 1, n) = suffix
         /\ \A i \in lo..hi : t[i] \in LowerAlpha
      THEN [matched |-> TRUE, name |-> ToText(SubSeq(t, lo, hi))]
      ELSE NoMatch

\* _type.match(WORKFLOW_EVENT_REGEX), for every string of the model
MatchOf == [type \in Text |-> RegexMatch(type)]
WORKFLOW_EVENT_REGEX(type) == MatchOf[type]

(* ------------------------------ values -------------------------------- *)

\* JavaScript values that reach a caller of the adapter
Undefined == [t |-> "undefined", v |-> {}]
Str(s) == [t |-> "string", v |-> s]
Obj(params) == [t |-> "object", v |-> params]
ErrorObj(message) == [t |-> "Error", v |-> message]

\* an object's own fields besides _id and _type: a set of <<field, value>>
EmptyParams == {}
TextParams == {<<"text", "hi">>}
ErrorParams == {<<"error", "bad-arg">>}
ButtonParams == {<<"button", "action">>}

\* event?.error
ErrorField(params) ==
  IF \E kv \in params : kv[1] = "error"
  THEN Str((CHOOSE kv \in params : kv[1] = "error")[2])
  ELSE Undefined

\* correlation ids, numbered in the order makeId hands them out; NoId is
\* the _id of a frame that has none (or a falsy one)
Ids == 1..NumReqs
NoId == 0

\* an inbound frame: the text of one websocket message.  parsed = FALSE is a
\* text JSON.parse rejects.
Frame(id, type, params) ==
  [parsed |-> TRUE, _id |-> id, _type |-> type, params |-> params]
Unparsable ==
  [parsed |-> FALSE, _id |-> NoId, _type |-> NoType, params |-> EmptyParams]

\* safeParse(msg): the object, or null for a text that does not parse; the
\* fields of null read through ?. are undefined
safeParse(msg) == IF msg.parsed THEN msg ELSE Unparsable

\* the frames the correlation engine is driven with
ResponseFrames ==
  {Frame(id, ResponseType(SAY), EmptyParams) : id \in Ids}
  \cup {Frame(id, ResponseType(SAY), TextParams) : id \in Ids}
  \cup {Frame(id, ResponseType(PLAY), TextParams) : id \in Ids}
  \cup {Frame(id, ERROR_RESPONSE, ErrorParams) : id \in Ids}

EngineFrames ==
  ResponseFrames
  \cup {Unparsable, Frame(NoId, ResponseType(SAY), TextParams)}

\* the frames the event dispatcher is driven with
EventFrames ==
  {Frame(NoId, EventType(n), EmptyParams) : n \in EventNames}
  \cup {Frame(NoId, EventType(BUTTON), ButtonParams),
        Frame(NoId, JUNK_TYPE, EmptyParams),
        Frame(NoId, NoType, ButtonParams),
        Frame(NoId, ResponseType(SAY), EmptyParams),
        Frame(1, EventType(START), EmptyParams),
        Frame(1, EventType(BUTTON), ButtonParams),
        Unparsable}

(* ------------------------------- state -------------------------------- *)

Conns == {"c1", "c2"}
NoConn == "no-conn"
Reqs == 1..NumReqs
\* the callbacks a workflow subscribes with
Listeners == {"l1", "l2"}

VARIABLES
  workflows,     \* keys of the module-level `workflows` map
  strict,        \* (options.STRICT_PATH ?? STRICT_PATH) === `1`
  sock,          \* per connection: the LocalWebSocket the server handed out
  instances,     \* keys of the module-level `instances` map
  websocket,     \* per connection: RelayEventAdapter.websocket is not null
  emitter,       \* per connection: RelayEventAdapter.emitter's listeners
  msgListeners,  \* per connection: responseListeners on the `message` event
  req,           \* per request slot: one _sendReceive call
  last,          \* the delivery the latest step made, if it was one
  uncaught,      \* exceptions that left a websocket callback uncaught
  ticks,         \* heartbeat ticks so far
  silent,        \* per connection: ticks since its last pong
  evicted        \* connections the heartbeat terminated

vars ==
  <<workflows, strict, sock, instances, websocket, emitter, msgListeners,
    req, last, uncaught, ticks, silent, evicted>>

(* ------------------------ RelayEventAdapter --------------------------- *)

\* what a _sendReceive promise has been settled with
Pending == [kind |-> "pending", value |-> Undefined]
Resolved(value) == [kind |-> "resolved", value |-> value]
Rejected(value) == [kind |-> "rejected", value |-> value]

WEBSOCKET_NOT_CONNECTED == Str("websocket-not-connected")
FAILED_TO_SEND == Str("failed-to-send")
RESPONSE_TIMEOUT == Str("failed-to-receive-response-timeout")
UNKNOWN_RESPONSE == ErrorObj("Unknown response")

\* no frame with the request's id was delivered inside its window
NotSeen == [any |-> FALSE, _type |-> NoType, params |-> EmptyParams]
Seen(msg) == [any |-> TRUE, _type |-> msg._type, params |-> msg.params]

\* a request slot no call has used
IdleReq ==
  [phase |-> "idle", conn |-> NoConn, id |-> NoId, type |-> NoType,
   timer |-> "none", outcome |-> Pending, settles |-> 0,
   elapsed |-> FALSE, seen |-> NotSeen]

\* resolve(...) or reject(...) of the promise: the first call decides the
\* outcome, a later one is ignored by the promise; settles counts the calls
Settle(rq, outcome) ==
  [rq EXCEPT !.phase = "settled",
             !.settles = @ + 1,
             !.outcome = IF @.kind = "pending" THEN outcome ELSE @]

\* clearTimeout(timeoutHandle)
clearTimeout(timer) == IF timer = "armed" THEN "cleared" ELSE timer

\* an emitter is the sequence of its registrations [name, listener], in the
\* order of the emitter.on calls.  The listeners of one event name, in order:
RECURSIVE EmitterListeners(_, _)
EmitterListeners(em, name) ==
  IF em = <<>> THEN <<>>
  ELSE IF Head(em).name = name
       THEN <<Head(em).listener>> \o EmitterListeners(Tail(em), name)
       ELSE EmitterListeners(Tail(em), name)

\* EventEmitter.emit(name, args): every listener of the name is called with
\* args, in subscription order; `error` without a listener throws instead
EmitCalls(em, name, args) ==
  [i \in 1..Len(EmitterListeners(em, name)) |->
     [listener |-> EmitterListeners(em, name)[i], name |-> name,
      args |-> args]]
EmitThrows(em, name) ==
  name = ERROR_NAME /\ EmitterListeners(em, name) = <<>>

NoEmit == [calls |-> <<>>, threw |-> FALSE]

\* onMessage without the `!message?._id` test
onMessageAnyId(em, msg) ==
  LET message == safeParse(msg)
      eventNameParts == WORKFLOW_EVENT_REGEX(message._type)
  IN  IF message._type # NoType
      THEN IF eventNameParts.matched /\ eventNameParts.name # ""
           THEN [calls |-> EmitCalls(em, eventNameParts.name, message.params),
                 threw |-> EmitThrows(em, eventNameParts.name)]
           ELSE NoEmit
      ELSE NoEmit

\* RelayEventAdapter.onMessage: the listener calls it makes, and whether it
\* throws.  args is the message without _type; in this branch it has no _id.
onMessage(em, msg) ==
  LET message == safeParse(msg)
      eventNameParts == WORKFLOW_EVENT_REGEX(message._type)
  IN  IF message._type # NoType /\ message._id = NoId
      THEN IF eventNameParts.matched /\ eventNameParts.name # ""
           THEN [calls |-> EmitCalls(em, eventNameParts.name, message.params),
                 threw |-> EmitThrows(em, eventNameParts.name)]
           ELSE NoEmit
      ELSE NoEmit

\* the test without the comparison of ids
ResponseMatchesAnyId(rq, msg) == safeParse(msg).parsed

\* `if (event) { ... if (_id === id)`
ResponseMatches(rq, msg) ==
  safeParse(msg).parsed /\ safeParse(msg)._id = rq.id

\* the branches on _type with a resolve(params) that does not look at the
\* number of fields
ResponseOutcomeAlwaysObject(rq, msg) ==
  LET event == safeParse(msg)
  IN  IF event._type = ResponseType(rq.type)
      THEN Resolved(Obj(event.params))
      ELSE IF event._type = ERROR_RESPONSE
           THEN Rejected(ErrorField(event.params))
           ELSE Rejected(UNKNOWN_RESPONSE)

\* the three branches on _type of a correlated response
ResponseOutcome(rq, msg) ==
  LET event == safeParse(msg)
  IN  IF event._type = ResponseType(rq.type)
      THEN Resolved(IF event.params # EmptyParams
                    THEN Obj(event.params) ELSE Undefined)
      ELSE IF event._type = ERROR_RESPONSE
           THEN Rejected(ErrorField(event.params))
           ELSE Rejected(UNKNOWN_RESPONSE)

\* responseListener that leaves the timer alone
responseListenerKeepTimer(rq, msg) ==
  IF ResponseMatches(rq, msg) THEN Settle(rq, ResponseOutcome(rq, msg)) ELSE rq

\* responseListener(msg) of the call in slot rq
responseListener(rq, msg) ==
  LET cleared == [rq EXCEPT !.timer = clearTimeout(@)]
  IN  IF ResponseMatches(rq, msg)
      THEN Settle(cleared, ResponseOutcome(rq, msg))
      ELSE cleared

\* the responseListeners on the one `message` stream all connections share
AttachedAnywhere(ml, c) ==
  UNION {{ml[d][i] : i \in 1..Len(ml[d])} : d \in DOMAIN ml}

\* the responseListeners attached to the websocket of connection c, the one
\* its adapter was constructed with
Attached(ml, c) == {ml[c][i] : i \in 1..Len(ml[c])}

\* websocket.emit(`message`, msg) on connection c: onMessage, bound in the
\* constructor, runs first, then the responseListeners attached at that
\* moment, in order; an exception ends the emit.  st is the adapter state
\* [req, ml, ws, em].
Deliver(st, c, msg) ==
  LET ev == onMessage(st.em[c], msg)
      called == IF ev.threw THEN {} ELSE Attached(st.ml, c)
      hit == {r \in called : ResponseMatches(st.req[r], msg)}
      \* this.websocket?.off(`message`, responseListener)
      off == IF st.ws[c] THEN hit ELSE {}
      keep(r) == r \notin off
      window == {r \in Reqs : /\ st.req[r].conn = c
                              /\ st.req[r].phase = "pending"
                              /\ ~st.req[r].elapsed
                              /\ ~st.req[r].seen.any
                              /\ msg.parsed /\ msg._id = st.req[r].id}
      seen == [r \in Reqs |->
                 IF r \in window
                 THEN [st.req[r] EXCEPT !.seen = Seen(msg)] ELSE st.req[r]]
      after == [r \in Reqs |->
                  IF r \in called THEN responseListener(seen[r], msg)
                  ELSE seen[r]]
  IN  [req |-> after,
       ml |-> [st.ml EXCEPT ![c] = SelectSeq(@, keep)],
       ws |-> st.ws,
       em |-> st.em,
       calls |-> ev.calls,
       threw |-> ev.threw,
       settled |-> {r \in Reqs : after[r].settles > st.req[r].settles}]

\* the outcome each call has after a sequence of deliveries on c
RECURSIVE DeliverAll(_, _, _)
DeliverAll(st, c, msgs) ==
  IF msgs = <<>> THEN st
  ELSE DeliverAll(Deliver(st, c, Head(msgs)), c, Tail(msgs))

(* ----------------------------- the router ----------------------------- *)

DEFAULT_WORKFLOW == "__default_relay_workflow__"

PathA == "a"
PathB == "b"

\* request.url of an upgrade request; the empty url is falsy, as a missing one
NoUrl == ""
Urls == {NoUrl, "/", "/a", "/b", "/__default_relay_workflow__"}

\* the first argument of relay.workflow when it is a string
RegistrationPaths == {"a", "/a", "//b"}

RECURSIVE DropSlashes(_)
DropSlashes(cs) ==
  IF cs # <<>> /\ Head(cs) = "/" THEN DropSlashes(Tail(cs)) ELSE cs

\* path.replace(/^\/+/, ``)
StripSlashes(path) == ToText(DropSlashes(Chars(path)))

\* request.url.slice(1)
Slice1(url) == IF url = "" THEN "" ELSE ToText(Tail(Chars(url)))

\* a shouldHandle that lets every request with a url through
shouldHandleAnyUrl(wfs, strictPaths, url) == url # NoUrl

\* server.shouldHandle(request)
shouldHandle(wfs, strictPaths, url) ==
  IF url # NoUrl
  THEN LET path == Slice1(url)
           hasDefaultWorkflow == DEFAULT_WORKFLOW \in wfs
           hasNamedWorkflow == path \in wfs
       IN  IF strictPaths THEN hasNamedWorkflow ELSE hasDefaultWorkflow
  ELSE FALSE

\* the resolution that prefers the default workflow
WorkflowNameDefaultFirst(wfs, url) ==
  IF DEFAULT_WORKFLOW \in wfs THEN DEFAULT_WORKFLOW ELSE Slice1(url)

\* workflows.has(path) ? path : DEFAULT_WORKFLOW
WorkflowName(wfs, url) ==
  IF Slice1(url) \in wfs THEN Slice1(url) ELSE DEFAULT_WORKFLOW

\* a connectionId without the makeId() suffix
ConnectionIdByWorkflow(workflowName, c) ==
  [workflow |-> workflowName, suffix |-> ""]

\* `${workflowName}-${makeId()}`; the connection stands for the fresh suffix
ConnectionId(workflowName, c) == [workflow |-> workflowName, suffix |-> c]

\* a connection slot no upgrade request has used
NoSock ==
  [state |-> "none", url |-> NoUrl, workflowName |-> NoType,
   isAlive |-> "undefined", invoked |-> 0, threw |-> FALSE,
   registry |-> {}]

\* the socket and session of a connection the router has routed; invoked
\* counts the calls of a workflow function with its adapter, threw tells
\* that the call ended in an exception, registry notes the keys of
\* `workflows` when the request came
OpenSock(url, workflowName, wfs) ==
  [state |-> "open", url |-> url, workflowName |-> workflowName,
   isAlive |-> "true", invoked |-> 1, threw |-> FALSE, registry |-> wfs]

NoDelivery ==
  [conn |-> NoConn, msg |-> Unparsable, calls |-> <<>>, threw |-> FALSE,
   settled |-> {}]

NoListeners == <<>>

\* relay.workflow(path, workflow) with a string path
Workflow(path) ==
  /\ path \in RegistrationPaths
  /\ workflows' = workflows \cup {StripSlashes(path)}
  /\ last' = NoDelivery
  /\ UNCHANGED <<strict, sock, instances, websocket, emitter, msgListeners,
                 req, uncaught, ticks, silent, evicted>>

\* relay.workflow(workflow): the default workflow
WorkflowDefault ==
  /\ workflows' = workflows \cup {DEFAULT_WORKFLOW}
  /\ last' = NoDelivery
  /\ UNCHANGED <<strict, sock, instances, websocket, emitter, msgListeners,
                 req, uncaught, ticks, silent, evicted>>

\* an upgrade request for connection c: shouldHandle, and for an accepted
\* request the `connection` handler, which ws runs in the same callback.
\* throws tells whether the workflow function, given the adapter, throws:
\* nothing catches it, so it ends the handler before instances.set and
\* leaves the callback.
Upgrade(c, url, throws) ==
  /\ sock[c].state = "none"
  /\ last' = NoDelivery
  /\ IF ~shouldHandle(workflows, strict, url)
     THEN /\ sock' = [sock EXCEPT ![c] =
                            [NoSock EXCEPT !.state = "rejected", !.url = url,
                                           !.registry = workflows]]
          /\ UNCHANGED <<instances, websocket, emitter, uncaught>>
     ELSE LET workflowName == WorkflowName(workflows, url)
          IN  IF workflowName \in workflows
              THEN /\ sock' = [sock EXCEPT ![c] =
                                     [OpenSock(url, workflowName, workflows)
                                        EXCEPT !.threw = throws]]
                   /\ websocket' = [websocket EXCEPT ![c] = TRUE]
                   /\ emitter' = [emitter EXCEPT ![c] = NoListeners]
                   /\ instances' =
                        IF throws THEN instances
                        ELSE instances \cup {ConnectionId(workflowName, c)}
                   /\ uncaught' = (uncaught \/ throws)
              ELSE /\ sock' = [sock EXCEPT ![c] =
                                 [NoSock EXCEPT !.state = "terminated",
                                                !.url = url,
                                                !.registry = workflows]]
                   /\ UNCHANGED <<instances, websocket, emitter, uncaught>>
  /\ UNCHANGED <<workflows, strict, msgListeners, req, ticks, silent,
                 evicted>>

\* an upgrade request whose workflow function returns
HandleUpgrade(c, url) == Upgrade(c, url, FALSE)

\* the `close` event of connection c: RelayEventAdapter.onClose and the
\* router's close handler, when the connection handler registered them
Close(c) ==
  /\ sock[c].state \in {"open", "terminated"}
  /\ sock' = [sock EXCEPT ![c].state = "closed"]
  /\ websocket' = [websocket EXCEPT ![c] = FALSE]
  /\ instances' = instances \ {ConnectionId(sock[c].workflowName, c)}
  /\ last' = NoDelivery
  /\ UNCHANGED <<workflows, strict, emitter, msgListeners, req, uncaught,
                 ticks, silent, evicted>>

(* ---------------------------- the heartbeat --------------------------- *)

\* server.clients: the sockets whose `close` has not been emitted
Clients == {c \in Conns : sock[c].state \in {"open", "terminated"}}

\* the turn that forgets `_websocket.isAlive = false`
HeartbeatSockKeepsFlag(sk) ==
  IF sk.isAlive = "false" THEN [sk EXCEPT !.state = "terminated"] ELSE sk

\* one client's turn in the forEach of the interval callback
HeartbeatSock(sk) ==
  IF sk.isAlive = "false"
  THEN [sk EXCEPT !.state = "terminated"]
  ELSE [sk EXCEPT !.isAlive = "false"]

\* the setInterval callback
Tick ==
  /\ ticks < MaxTicks
  /\ ticks' = ticks + 1
  /\ sock' = [c \in Conns |->
                IF c \in Clients THEN HeartbeatSock(sock[c]) ELSE sock[c]]
  /\ evicted' = evicted \cup
       {c \in Clients : sock[c].state = "open"
                        /\ HeartbeatSock(sock[c]).state = "terminated"}
  /\ silent' = [c \in Conns |->
                  IF sock[c].state = "open" THEN silent[c] + 1
                  ELSE silent[c]]
  /\ last' = NoDelivery
  /\ UNCHANGED <<workflows, strict, instances, websocket, emitter,
                 msgListeners, req, uncaught>>

\* the pong handler that never refreshes the flag
PongSockStale(sk) == sk

\* websocket.on(`pong`, ...)
PongSock(sk) == [sk EXCEPT !.isAlive = "true"]

\* the peer's pong arrives on connection c
Pong(c) ==
  /\ sock[c].state = "open"
  /\ sock' = [sock EXCEPT ![c] = PongSock(@)]
  /\ silent' = [silent EXCEPT ![c] = 0]
  /\ last' = NoDelivery
  /\ UNCHANGED <<workflows, strict, instances, websocket, emitter,
                 msgListeners, req, uncaught, ticks, evicted>>

(* ------------------- the adapter's operations, as steps --------------- *)

\* connection c was routed: its workflow holds a RelayEventAdapter
HasAdapter(c) == sock[c].invoked = 1

\* ids the calls of connection c have used
UsedIds(c) == {req[r].id : r \in {q \in Reqs : req[q].conn = c}}

\* makeId(): an id no call of the connection has used; which one is chosen
\* makes no difference to the adapter, so the first free one stands for it
makeId(c) ==
  CHOOSE id \in Ids \ UsedIds(c) : \A other \in Ids \ UsedIds(c) : id <= other

\* emitter.on(event, listener)
On(c, name, l) ==
  /\ HasAdapter(c)
  /\ name \in Event
  /\ Len(emitter[c]) < MaxListeners
  /\ emitter' = [emitter EXCEPT ![c] =
                   Append(@, [name |-> name, listener |-> l])]
  /\ last' = NoDelivery
  /\ UNCHANGED <<workflows, strict, sock, instances, websocket, msgListeners,
                 req, uncaught, ticks, silent, evicted>>

\* EventEmitter.removeListener: the most recently added instance of the
\* listener for that name goes, if there is one
RemoveListener(em, name, l) ==
  LET reg == [name |-> name, listener |-> l]
  IN  IF \E i \in 1..Len(em) : em[i] = reg
      THEN LET k == CHOOSE i \in 1..Len(em) :
                      em[i] = reg /\ \A j \in (i + 1)..Len(em) : em[j] # reg
           IN  SubSeq(em, 1, k - 1) \o SubSeq(em, k + 1, Len(em))
      ELSE em

\* emitter.off(event, listener)
Off(c, name, l) ==
  /\ HasAdapter(c)
  /\ name \in Event
  /\ emitter' = [emitter EXCEPT ![c] = RemoveListener(@, name, l)]
  /\ last' = NoDelivery
  /\ UNCHANGED <<workflows, strict, sock, instances, websocket, msgListeners,
                 req, uncaught, ticks, silent, evicted>>

\* _send without the `if (!this.websocket)` test
sendUnchecked(rq, ws, phase) == [rq EXCEPT !.phase = phase]

\* _send up to websocket.send: without a websocket the promise is rejected
\* at once and nothing is written; otherwise the frame goes to
\* websocket.send and the call is in the given phase until the callback
send(rq, ws, phase) ==
  IF ~ws THEN Settle(rq, Rejected(WEBSOCKET_NOT_CONNECTED))
  ELSE [rq EXCEPT !.phase = phase]

\* _sendReceive up to its await: makeId, then _send, which rejects at once
\* without a websocket and otherwise hands the frame to websocket.send
SendReceive(r, c, type) ==
  /\ HasAdapter(c)
  /\ type \in Kinds
  /\ req[r].phase = "idle"
  /\ \A q \in Reqs : q < r => req[q].phase # "idle"
  /\ Ids \ UsedIds(c) # {}
  /\ LET id == makeId(c)
     IN  req' = [req EXCEPT ![r] =
                   send([IdleReq EXCEPT !.conn = c, !.id = id, !.type = type],
                        websocket[c], "sending")]
  /\ last' = NoDelivery
  /\ UNCHANGED <<workflows, strict, sock, instances, websocket, emitter,
                 msgListeners, uncaught, ticks, silent, evicted>>

\* the callback of websocket.send and the rest of _sendReceive: with an
\* error the call rejects; otherwise the timer starts and the listener is
\* attached through this.websocket?.on
SendDone(r, err) ==
  /\ req[r].phase = "sending"
  /\ IF err
     THEN /\ req' = [req EXCEPT ![r] = Settle(@, Rejected(FAILED_TO_SEND))]
          /\ UNCHANGED msgListeners
     ELSE /\ req' = [req EXCEPT ![r].phase = "pending", ![r].timer = "armed"]
          /\ msgListeners' =
               IF websocket[req[r].conn]
               THEN [msgListeners EXCEPT ![req[r].conn] = Append(@, r)]
               ELSE msgListeners
  /\ last' = NoDelivery
  /\ UNCHANGED <<workflows, strict, sock, instances, websocket, emitter,
                 uncaught, ticks, silent, evicted>>

\* a callback of _send that starts a timeout and waits, as _sendReceive does
sentThenWaits(rq, err) ==
  IF err THEN Settle(rq, Rejected(FAILED_TO_SEND))
  ELSE [rq EXCEPT !.phase = "pending", !.timer = "armed"]

\* the callback websocket.send is given in _send: reject with an error,
\* resolve() without one
sent(rq, err) ==
  IF err THEN Settle(rq, Rejected(FAILED_TO_SEND))
  ELSE Settle(rq, Resolved(Undefined))

\* terminate(): `await this._send(`terminate`)`, a command that sends and
\* waits for no response; _send makes the id of its frame
Terminate(r, c) ==
  /\ HasAdapter(c)
  /\ req[r].phase = "idle"
  /\ \A q \in Reqs : q < r => req[q].phase # "idle"
  /\ Ids \ UsedIds(c) # {}
  /\ req' = [req EXCEPT ![r] =
               send([IdleReq EXCEPT !.conn = c, !.id = makeId(c),
                                    !.type = TERMINATE],
                    websocket[c], "writing")]
  /\ last' = NoDelivery
  /\ UNCHANGED <<workflows, strict, sock, instances, websocket, emitter,
                 msgListeners, uncaught, ticks, silent, evicted>>

\* the callback of websocket.send for the frame of terminate()
TerminateSent(r, err) ==
  /\ req[r].phase = "writing"
  /\ req' = [req EXCEPT ![r] = sent(@, err)]
  /\ last' = NoDelivery
  /\ UNCHANGED <<workflows, strict, sock, instances, websocket, emitter,
                 msgListeners, uncaught, ticks, silent, evicted>>

\* the callback of websocket.send taken apart from what follows the await.
\* Without an error it calls resolve(): the write has completed and the
\* rest of _sendReceive is queued as a microtask.
SendCallback(r, err) ==
  /\ req[r].phase = "sending"
  /\ req' = [req EXCEPT ![r] =
               IF err THEN Settle(@, Rejected(FAILED_TO_SEND))
               ELSE [@ EXCEPT !.phase = "written"]]
  /\ last' = NoDelivery
  /\ UNCHANGED <<workflows, strict, sock, instances, websocket, emitter,
                 msgListeners, uncaught, ticks, silent, evicted>>

\* the rest of _sendReceive behind `await this._send(...)`: setTimeout, and
\* the listener attached through this.websocket?.on
Resume(r) ==
  /\ req[r].phase = "written"
  /\ req' = [req EXCEPT ![r].phase = "pending", ![r].timer = "armed"]
  /\ msgListeners' =
       IF websocket[req[r].conn]
       THEN [msgListeners EXCEPT ![req[r].conn] = Append(@, r)]
       ELSE msgListeners
  /\ last' = NoDelivery
  /\ UNCHANGED <<workflows, strict, sock, instances, websocket, emitter,
                 uncaught, ticks, silent, evicted>>

\* an await whose continuation waits for a turn of the event loop, like a
\* callback of its own
MicrotasksAnytime == TRUE

\* the continuation of an await is a microtask: it runs before the event
\* loop starts the next callback (a message, a timer, a send callback), so
\* such a callback starts only when no continuation is queued
MicrotasksFirst == \A r \in Reqs : req[r].phase # "written"

\* the adapter state Deliver works on
AdapterState ==
  [req |-> req, ml |-> msgListeners, ws |-> websocket, em |-> emitter]

\* the websocket of connection c emits `message` with msg
OnMessage(c, msg) ==
  /\ sock[c].state = "open"
  /\ HasAdapter(c)
  /\ LET d == Deliver(AdapterState, c, msg)
     IN  /\ req' = d.req
         /\ msgListeners' = d.ml
         /\ uncaught' = (uncaught \/ d.threw)
         /\ last' = [conn |-> c, msg |-> msg, calls |-> d.calls,
                     threw |-> d.threw, settled |-> d.settled]
  /\ UNCHANGED <<workflows, strict, sock, instances, websocket, emitter,
                 ticks, silent, evicted>>

\* the callback of setTimeout
TimeoutFires(rq) ==
  Settle([rq EXCEPT !.timer = "fired"], Rejected(RESPONSE_TIMEOUT))

\* the timeout window of the call in slot r ends: the callback runs unless
\* clearTimeout cancelled it, and takes the listener off through
\* this.websocket?.off.  For a cancelled timer the end of the window is
\* only noted, and only while the call is still waiting.
Elapse(r) ==
  /\ \/ req[r].timer = "armed"
     \/ req[r].timer = "cleared" /\ req[r].phase = "pending"
  /\ ~req[r].elapsed
  /\ IF req[r].timer = "armed"
     THEN /\ req' = [req EXCEPT ![r] = [TimeoutFires(@) EXCEPT !.elapsed = TRUE]]
          /\ msgListeners' =
               IF websocket[req[r].conn]
               THEN [msgListeners EXCEPT ![req[r].conn] =
                       SelectSeq(@, LAMBDA q : q # r)]
               ELSE msgListeners
     ELSE /\ req' = [req EXCEPT ![r].elapsed = TRUE]
          /\ UNCHANGED msgListeners
  /\ last' = NoDelivery
  /\ UNCHANGED <<workflows, strict, sock, instances, websocket, emitter,
                 uncaught, ticks, silent, evicted>>

(* --------------------------- specifications --------------------------- *)

\* the state once the connections in open have been routed to the default
\* workflow, with the registry wfs
Routed(open, wfs, strictPaths) ==
  /\ workflows = wfs
  /\ strict = strictPaths
  /\ sock = [c \in Conns |->
               IF c \in open THEN OpenSock("/", DEFAULT_WORKFLOW, wfs)
               ELSE NoSock]
  /\ instances = {ConnectionId(DEFAULT_WORKFLOW, c) : c \in open}
  /\ websocket = [c \in Conns |-> c \in open]
  /\ emitter = [c \in Conns |-> NoListeners]
  /\ msgListeners = [c \in Conns |-> <<>>]
  /\ req = [r \in Reqs |-> IdleReq]
  /\ last = NoDelivery
  /\ uncaught = FALSE
  /\ ticks = 0
  /\ silent = [c \in Conns |-> 0]
  /\ evicted = {}

\* the correlation engine of one routed connection
Init == Routed({"c1"}, {DEFAULT_WORKFLOW}, FALSE)

Next ==
  \/ \E r \in Reqs, type \in Kinds : SendReceive(r, "c1", type)
  \/ \E r \in Reqs, err \in BOOLEAN : SendDone(r, err)
  \/ \E msg \in EngineFrames : OnMessage("c1", msg)
  \/ \E r \in Reqs : Elapse(r)
  \/ Close("c1")

Spec == Init /\ [][Next]_vars

\* frames with and without an id, against calls and listeners
PartitionFrames ==
  {Frame(id, EventType(START), EmptyParams) : id \in Ids}
  \cup {Frame(NoId, EventType(START), EmptyParams),
        Frame(NoId, ResponseType(SAY), TextParams),
        Frame(1, ResponseType(SAY), TextParams),
        Unparsable}

\* one routed connection with calls outstanding and listeners subscribed
NextPartition ==
  \/ \E r \in Reqs : SendReceive(r, "c1", SAY)
  \/ \E r \in Reqs : SendDone(r, FALSE)
  \/ \E msg \in PartitionFrames : OnMessage("c1", msg)
  \/ \E l \in Listeners : On("c1", START, l)
  \/ \E l \in Listeners : Off("c1", START, l)

SpecPartition == Init /\ [][NextPartition]_vars

\* the event dispatcher of one routed connection
NextEvents ==
  \/ \E name \in Event, l \in Listeners : On("c1", name, l)
  \/ \E name \in Event, l \in Listeners : Off("c1", name, l)
  \/ \E msg \in EventFrames : OnMessage("c1", msg)

SpecEvents == Init /\ [][NextEvents]_vars

\* the router from the moment initializeRelaySdk returns
InitRouter == \E strictPaths \in BOOLEAN : Routed({}, {}, strictPaths)

NextRouter ==
  \/ \E path \in RegistrationPaths : Workflow(path)
  \/ WorkflowDefault
  \/ \E c \in Conns, url \in Urls : HandleUpgrade(c, url)
  \/ \E c \in Conns : Close(c)

SpecRouter == InitRouter /\ [][NextRouter]_vars

\* the heartbeat over connections that come, answer or stay silent, and go
InitMonitor == Routed({}, {DEFAULT_WORKFLOW}, FALSE)

NextMonitor ==
  \/ \E c \in Conns : HandleUpgrade(c, "/")
  \/ Tick
  \/ \E c \in Conns : Pong(c)
  \/ \E c \in Conns : Close(c)

SpecMonitor == InitMonitor /\ [][NextMonitor]_vars

\* the frames the sending operations are driven with
SendFrames == {Frame(1, ResponseType(SAY), TextParams), Unparsable}

\* commands that send only and commands that wait for a response, on one
\* routed connection that may close
NextSend ==
  \/ \E r \in Reqs : Terminate(r, "c1")
  \/ \E r \in Reqs, err \in BOOLEAN : TerminateSent(r, err)
  \/ \E r \in Reqs : SendReceive(r, "c1", SAY)
  \/ \E r \in Reqs, err \in BOOLEAN : SendDone(r, err)
  \/ \E msg \in SendFrames : OnMessage("c1", msg)
  \/ \E r \in Reqs : Elapse(r)
  \/ Close("c1")

SpecSend == Init /\ [][NextSend]_vars

\* the process runs: no exception has left a callback uncaught, which ends
\* a Node process that has no handler for it
Running == ~uncaught

\* connections whose workflow functions return or throw, next to sessions
\* that are at work
InitHandlers == Routed({}, {DEFAULT_WORKFLOW}, FALSE)

NextHandlers ==
  \/ \E c \in Conns, throws \in BOOLEAN :
       Running /\ Upgrade(c, "/", throws)
  \/ \E r \in Reqs, c \in Conns : Running /\ SendReceive(r, c, SAY)
  \/ \E r \in Reqs : Running /\ SendDone(r, FALSE)
  \/ \E c \in Conns :
       Running /\ OnMessage(c, Frame(1, ResponseType(SAY), TextParams))
  \/ \E c \in Conns : Running /\ Close(c)

SpecHandlers == InitHandlers /\ [][NextHandlers]_vars

\* the callback the workflow function subscribes when it is called for a
\* connection: a closure of that call
ListenerOf == [c \in Conns |-> IF c = "c1" THEN "l1" ELSE "l2"]

\* the frames two sessions side by side are driven with
IsolationFrames ==
  {Frame(id, ResponseType(SAY), TextParams) : id \in Ids}
  \cup {Frame(NoId, EventType(START), EmptyParams)}

\* two routed connections, each with the adapter it was constructed with
InitIsolation == Routed(Conns, {DEFAULT_WORKFLOW}, FALSE)

NextIsolation ==
  \/ \E r \in Reqs, c \in Conns : SendReceive(r, c, SAY)
  \/ \E r \in Reqs : SendDone(r, FALSE)
  \/ \E c \in Conns : On(c, START, ListenerOf[c])
  \/ \E c \in Conns, msg \in IsolationFrames : OnMessage(c, msg)

SpecIsolation == InitIsolation /\ [][NextIsolation]_vars

\* the router with its heartbeat: connections are accepted, terminated by
\* the heartbeat and closed in any order
NextRegistry ==
  \/ \E path \in RegistrationPaths : Workflow(path)
  \/ WorkflowDefault
  \/ \E c \in Conns, url \in Urls : HandleUpgrade(c, url)
  \/ Tick
  \/ \E c \in Conns : Close(c)

SpecRegistry == InitRouter /\ [][NextRegistry]_vars

\* the frames a call between its write and its registration is driven with
WriteFrames ==
  {Frame(id, ResponseType(SAY), TextParams) : id \in Ids} \cup {Unparsable}

\* _sendReceive with the callback of the write and the continuation of the
\* await as steps of their own, among the other callbacks of the event loop
NextWrite ==
  \/ \E r \in Reqs : SendReceive(r, "c1", SAY)
  \/ \E r \in Reqs, err \in BOOLEAN : MicrotasksFirst /\ SendCallback(r, err)
  \/ \E r \in Reqs : Resume(r)
  \/ \E msg \in WriteFrames : MicrotasksFirst /\ OnMessage("c1", msg)
  \/ \E r \in Reqs : MicrotasksFirst /\ Elapse(r)

SpecWrite == Init /\ [][NextWrite]_vars

(* ------------------------------- claims ------------------------------- *)

\* the call in slot r got as far as starting its timeout
Registered(r) == req[r].timer # "none"

\* C1: once the request frame of a sendAndReceive call has been written,
\* the call settles within its timeout window whatever frames arrive: when
\* the window has ended the call has been resolved or rejected.
C1_SettlesWithinWindow ==
  \A r \in Reqs : req[r].elapsed => req[r].phase = "settled"

C3_OutcomeByFirstMatch ==
  \A r \in Reqs :
    (Registered(r) /\ (req[r].elapsed \/ req[r].phase = "settled")) =>
      LET s == req[r].seen
          o == req[r].outcome
      IN  IF ~s.any THEN o = Rejected(RESPONSE_TIMEOUT)
          ELSE IF s._type = ResponseType(req[r].type)
               THEN /\ o.kind = "resolved"
                    /\ s.params # EmptyParams => o.value = Obj(s.params)
          ELSE IF s._type = ERROR_RESPONSE
               THEN o = Rejected(ErrorField(s.params))
          ELSE o = Rejected(UNKNOWN_RESPONSE)

\* the calls of connection c whose responseListener is attached and waiting
Waiting(c) ==
  {r \in Reqs : /\ req[r].conn = c /\ req[r].phase = "pending"
                /\ \E i \in 1..Len(msgListeners[c]) : msgListeners[c][i] = r}

Delivered == last.conn # NoConn

\* C5: inbound frames are partitioned by the presence of a correlation id:
\* a frame that carries an id reaches no event listener, and a frame
\* without an id settles no pending request.
C5_PartitionById ==
  Delivered =>
    /\ last.msg._id # NoId => last.calls = <<>> /\ ~last.threw
    /\ last.msg._id = NoId => last.settled = {}

\* a frame with an id and the tag of the start event came while a start
\* listener was subscribed: it settled the call with that id and reached no
\* listener
C5_Witness ==
  /\ Delivered
  /\ last.msg = Frame(1, EventType(START), EmptyParams)
  /\ EmitterListeners(emitter[last.conn], START) # <<>>
  /\ last.settled = {1}
  /\ last.calls = <<>>

\* the tags of the nine event kinds
RecognizedTags == {EventType(kind) : kind \in Event}

\* C6: for each of the nine event kinds, a frame without an id whose type
\* is the event tag of that kind is delivered to every listener subscribed
\* for the kind, in order, with the frame's fields minus the envelope.
C6_EveryKindDelivered ==
  \A kind \in Event :
    (Delivered /\ last.msg.parsed /\ last.msg._id = NoId
       /\ last.msg._type = EventType(kind)) =>
      LET ls == EmitterListeners(emitter[last.conn], kind)
      IN  /\ Len(last.calls) = Len(ls)
          /\ \A i \in 1..Len(ls) :
               last.calls[i] =
                 [listener |-> ls[i], name |-> kind, args |-> last.msg.params]

\* C7: a frame that does not parse, or whose type is not one of the
\* recognized event tags, is dropped: no listener runs and no error leaves
\* the message handler.
C7_UnrecognizedDropped ==
  (Delivered /\ (~last.msg.parsed \/ last.msg._type \notin RecognizedTags)) =>
    last.calls = <<>> /\ ~last.threw

\* the request of connection c had a url
Requested(c) == sock[c].state # "none" /\ sock[c].url # NoUrl

\* the router let the request of connection c through the handshake
Accepted(c) == sock[c].state \in {"open", "terminated", "closed"}

\* the paths workflows were registered at, the default apart
NamedPaths(wfs) == wfs \ {DEFAULT_WORKFLOW}

\* C8: a connection request is accepted exactly when its path matches a
\* registered workflow path, or a default workflow is registered and
\* strict-path mode is off; a rejected request invokes no workflow.
C8_AcceptanceRule ==
  \A c \in Conns :
    Requested(c) =>
      /\ Accepted(c) <=>
           \/ Slice1(sock[c].url) \in NamedPaths(sock[c].registry)
           \/ DEFAULT_WORKFLOW \in sock[c].registry /\ ~strict
      /\ ~Accepted(c) => sock[c].invoked = 0

\* C9: with workflows at "a" and as default, a request for "a" resolves to
\* the "a" workflow in either mode; a request for "b", where nothing is
\* registered, is rejected with no workflow invoked in strict mode and
\* resolves to the default workflow otherwise.
C9_Resolution ==
  \A c \in Conns :
    (Requested(c) /\ {PathA, DEFAULT_WORKFLOW} \subseteq sock[c].registry) =>
      /\ sock[c].url = "/a" =>
           /\ Accepted(c)
           /\ sock[c].workflowName = PathA
           /\ sock[c].invoked = 1
      /\ (sock[c].url = "/b" /\ PathB \notin sock[c].registry) =>
           IF strict
           THEN sock[c].state = "rejected" /\ sock[c].invoked = 0
           ELSE /\ Accepted(c)
                /\ sock[c].workflowName = DEFAULT_WORKFLOW
                /\ sock[c].invoked = 1

\* with strict mode off, one connection asked for "a" and got the "a"
\* workflow, another asked for "b" and got the default
C9_Witness ==
  /\ ~strict
  /\ \E c, d \in Conns :
       /\ {PathA, DEFAULT_WORKFLOW} \subseteq sock[c].registry
       /\ sock[c].url = "/a" /\ sock[c].workflowName = PathA
       /\ {PathA, DEFAULT_WORKFLOW} \subseteq sock[d].registry
       /\ PathB \notin sock[d].registry
       /\ sock[d].url = "/b" /\ sock[d].workflowName = DEFAULT_WORKFLOW

\* C10: the heartbeat closes a connection exactly when two ticks in a row
\* found it without a pong in between: a connection that stays silent over
\* two ticks has been terminated, and one that answered each probe before
\* the next tick is not terminated by the heartbeat.
C10_EvictedIffSilent ==
  \A c \in Conns :
    /\ silent[c] >= 2 =>
         c \in evicted /\ sock[c].state \in {"terminated", "closed"}
    /\ c \in evicted => silent[c] >= 2

\* after every tick of the run one connection, silent throughout, has been
\* evicted while the other, which answered its probes, is still open
C10_Witness ==
  /\ ticks = MaxTicks
  /\ \E c, d \in Conns :
       /\ c \in evicted
       /\ sock[d].state = "open" /\ sock[d].isAlive = "true"
       /\ d \notin evicted

\* the step is the `close` event of connection c
Closes(c) == sock[c].state # "closed" /\ sock'[c].state = "closed"

\* the calls of connection c that wait for a response
Outstanding(c) == {r \in Reqs : req[r].conn = c /\ req[r].phase = "pending"}

\* C11: when the transport of a connection closes, every request pending
\* on that connection is settled, with an error, in that step: no call is
\* still waiting once the close has been handled.
C11_CloseSettlesPending ==
  [][\A c \in Conns :
       Closes(c) =>
         \A r \in Outstanding(c) :
           req'[r].phase = "settled" /\ req'[r].outcome.kind = "rejected"]_vars

\* the step issues the call in slot r
Issues(r) == req[r].phase = "idle" /\ req'[r].phase # "idle"

\* C12: after a connection has closed, a sendOnly or sendAndReceive issued
\* on its session is rejected in the step that issues it: it never reaches
\* websocket.send (no frame is written), starts no timer and attaches no
\* listener; and no frame is delivered to a closed connection's session.
C12_FailFastAfterClose ==
  /\ [][\A r \in Reqs :
          (Issues(r) /\ sock[req'[r].conn].state = "closed") =>
            /\ req'[r].phase = "settled"
            /\ req'[r].outcome.kind = "rejected"
            /\ req'[r].timer = "none"
            /\ msgListeners' = msgListeners]_vars
  /\ [][Delivered' => sock[last'.conn].state # "closed"]_vars

\* on a closed connection a terminate() and a say() were both rejected for
\* want of a websocket
C12_Witness ==
  \E r, q \in Reqs :
    /\ req[r].type = TERMINATE /\ req[q].type = SAY
    /\ sock[req[r].conn].state = "closed"
    /\ req[r].outcome = Rejected(WEBSOCKET_NOT_CONNECTED)
    /\ req[q].outcome = Rejected(WEBSOCKET_NOT_CONNECTED)
    /\ req[r].timer = "none" /\ req[q].timer = "none"

\* C13: a frame with the id of a waiting call and the response type of its
\* kind that carries no field besides the envelope resolves the call with
\* an empty payload object.
C13_EmptyPayloadObject ==
  \A r \in Reqs :
    (/\ Delivered
     /\ r \in last.settled
     /\ last.msg._type = ResponseType(req[r].type)
     /\ last.msg.params = EmptyParams) =>
      req[r].outcome = Resolved(Obj(EmptyParams))

\* C13 as amended: a response of the expected type that carries no field
\* besides the envelope resolves the call with no value (undefined); one
\* that carries fields resolves it with the object of those fields.
C13_EmptyPayloadUndefined ==
  \A r \in Reqs :
    (/\ Delivered
     /\ r \in last.settled
     /\ last.msg._type = ResponseType(req[r].type)) =>
      req[r].outcome =
        Resolved(IF last.msg.params = EmptyParams THEN Undefined
                 ELSE Obj(last.msg.params))

\* the response without payload has just resolved a say() with undefined
C13_Witness ==
  /\ Delivered
  /\ last.msg = Frame(1, ResponseType(SAY), EmptyParams)
  /\ last.settled # {}
  /\ \A r \in last.settled : req[r].outcome = Resolved(Undefined)

\* the registrations of one event name on an emitter, in the order of the
\* on calls that made them
RegistrationsOf(em, name) == SelectSeq(em, LAMBDA e : e.name = name)

\* how often listener l occurs in a sequence of registrations or of calls
Occurrences(seq, l) ==
  Cardinality({i \in 1..Len(seq) : seq[i].listener = l})

\* C14: off with a listener that is not registered for the kind changes
\* nothing; a listener registered n times for a kind runs n times for an
\* inbound event of the kind (on does not de-duplicate); and the listeners
\* of the kind run in the order of their subscriptions.
C14_RegistrySemantics ==
  /\ \A c \in Conns, kind \in Event, l \in Listeners :
       Occurrences(RegistrationsOf(emitter[c], kind), l) = 0 =>
         RemoveListener(emitter[c], kind, l) = emitter[c]
  /\ \A kind \in Event :
       (Delivered /\ last.msg.parsed /\ last.msg._id = NoId
          /\ last.msg._type = EventType(kind)) =>
         LET regs == RegistrationsOf(emitter[last.conn], kind)
         IN  /\ \A l \in Listeners :
                  Occurrences(last.calls, l) = Occurrences(regs, l)
             /\ Len(last.calls) = Len(regs)
             /\ \A i \in 1..Len(regs) :
                  last.calls[i].listener = regs[i].listener

\* C15: a workflow function that throws when the router calls it for one
\* connection does not bring the router down: its exception leaves no
\* callback uncaught, so the process goes on running.
C15_HandlerThrowContained ==
  \A c \in Conns : sock[c].threw => Running

\* C16: no listener leaks: every responseListener attached to the message
\* stream of a connection belongs to a call of that connection that has
\* not settled, whichever way calls settle (response, error response,
\* unknown response, or timeout, before or after the close); and while the
\* connection is open every waiting call has its listener attached.
C16_NoLeakedListeners ==
  \A c \in Conns :
    /\ \A r \in Attached(msgListeners, c) :
         req[r].conn = c /\ req[r].phase = "pending"
    /\ sock[c].state = "open" =>
         \A r \in Outstanding(c) : r \in Attached(msgListeners, c)

\* the errors of the send step
TransportErrors ==
  {Rejected(WEBSOCKET_NOT_CONNECTED), Rejected(FAILED_TO_SEND)}

\* C17: a send-only command settles in the step its write completes, with
\* no value, or with a transport error when there is no websocket or the
\* write fails: it never has a timer or a listener and never waits for a
\* frame.  A call of either kind whose send step failed is rejected with
\* the transport error and has no timer and no listener; and the step that
\* brings a transport error leaves the connection as it was.
C17_SendOnlyAndSendFailure ==
  /\ [](\A r \in Reqs :
         /\ req[r].type = TERMINATE =>
              /\ req[r].timer = "none"
              /\ r \notin Attached(msgListeners, req[r].conn)
              /\ req[r].phase \in {"writing", "settled"}
              /\ req[r].phase = "settled" =>
                   req[r].outcome \in
                     TransportErrors \cup {Resolved(Undefined)}
         /\ req[r].outcome \in TransportErrors =>
              /\ req[r].timer = "none"
              /\ req[r].settles = 1
              /\ \A c \in Conns : r \notin Attached(msgListeners, c))
  /\ [][\A r \in Reqs :
          /\ (Issues(r) /\ ~websocket[req'[r].conn]) =>
               req'[r].outcome = Rejected(WEBSOCKET_NOT_CONNECTED)
          /\ (req[r].phase = "writing" /\ req'[r] # req[r]) =>
               /\ req'[r].phase = "settled"
               /\ req'[r].outcome \in
                    {Resolved(Undefined), Rejected(FAILED_TO_SEND)}
          /\ (req[r].outcome \notin TransportErrors
                /\ req'[r].outcome \in TransportErrors) =>
               UNCHANGED <<sock, websocket, instances>>]_vars

\* on a connection that is still open, a terminate() resolved when its
\* write completed and a say() was rejected because its write failed
C17_Witness ==
  \E r, q \in Reqs :
    /\ req[r].type = TERMINATE /\ req[r].outcome = Resolved(Undefined)
    /\ req[q].type = SAY /\ req[q].outcome = Rejected(FAILED_TO_SEND)
    /\ req[q].timer = "none"
    /\ sock[req[q].conn].state = "open" /\ websocket[req[q].conn]

\* the probes sent to connection c since its last pong (or since it came)
\* that have had no pong: every tick that found it open sent one, but for
\* the tick that terminated it, which returns before the ping
Unanswered(c) == IF c \in evicted THEN silent[c] - 1 ELSE silent[c]

\* C18: the monitor tolerates one missed probe and evicts only after two:
\* a connection the heartbeat terminated had left two probes unanswered.
C18_TwoMissedProbes ==
  \A c \in Conns : c \in evicted => Unanswered(c) >= 2

\* C18 as amended: the monitor evicts at the first tick that finds the
\* probe of the tick before unanswered, so a connection it terminated had
\* left exactly one probe unanswered and an open connection never has more
\* than one outstanding; the flag of an open connection is true exactly
\* when no tick has come since its last pong (or since it connected).
C18_OneMissedProbe ==
  \A c \in Conns :
    /\ c \in evicted => Unanswered(c) = 1
    /\ sock[c].state = "open" =>
         /\ Unanswered(c) <= 1
         /\ sock[c].isAlive = "true" <=> silent[c] = 0
         /\ sock[c].isAlive = "false" <=> silent[c] = 1

\* a connection was terminated at the second tick after its last sign of
\* life, with one probe unanswered, while another that had answered its
\* probe carries the flag again
C18_Witness ==
  \E c, d \in Conns :
    /\ c \in evicted /\ silent[c] = 2 /\ sock[c].state = "terminated"
    /\ d \notin evicted /\ sock[d].state = "open"
    /\ sock[d].isAlive = "true" /\ ticks >= 2

\* C19: connections are isolated: a frame delivered on one connection
\* settles only calls of that connection and runs only listeners
\* subscribed on that connection's session, and it changes nothing of
\* another connection's calls, response listeners or event listeners,
\* also when the two sessions wait with equal ids and hold listeners for
\* the same kind.
C19_ConnectionsIsolated ==
  /\ [](Delivered =>
          /\ \A r \in last.settled : req[r].conn = last.conn
          /\ \A i \in 1..Len(last.calls) :
               last.calls[i].listener = ListenerOf[last.conn])
  /\ [][\A c \in Conns :
          (Delivered' /\ last'.conn # c) =>
            /\ \A r \in Reqs : req[r].conn = c => req'[r] = req[r]
            /\ msgListeners'[c] = msgListeners[c]
            /\ emitter'[c] = emitter[c]]_vars

\* two sessions waited with the same id and each held a start listener; the
\* response delivered on the first settled its call and the call of the
\* second still waits, its timer running
C19_Witness ==
  /\ Delivered /\ last.conn = "c1"
  /\ \E r, q \in Reqs :
       /\ req[r].conn = "c1" /\ req[q].conn = "c2"
       /\ req[r].id = req[q].id
       /\ last.settled = {r} /\ req[r].outcome.kind = "resolved"
       /\ req[q].phase = "pending" /\ req[q].timer = "armed"
       /\ q \in Attached(msgListeners, "c2")
  /\ EmitterListeners(emitter["c1"], START) # <<>>
  /\ EmitterListeners(emitter["c2"], START) # <<>>

\* the connections that were accepted and routed to a workflow and whose
\* close has not been handled
Live ==
  {c \in Conns : sock[c].state \in {"open", "terminated"}
                   /\ sock[c].invoked = 1}

\* C20: the live-session registry holds exactly one entry for each
\* connection that was accepted, routed to a workflow and has not closed;
\* handling the close of a connection removes its entry and the entry of
\* no other connection.
C20_RegistryInvariant ==
  /\ [](/\ instances = {ConnectionId(sock[c].workflowName, c) : c \in Live}
        /\ Cardinality(instances) = Cardinality(Live))
  /\ [][\A c \in Conns :
          Closes(c) =>
            /\ ConnectionId(sock[c].workflowName, c) \notin instances'
            /\ \A d \in Live \ {c} :
                 ConnectionId(sock[d].workflowName, d) \in instances']_vars

\* two connections were routed to the same workflow; one has closed and
\* the registry holds the entry of the other alone
C20_Witness ==
  \E c, d \in Conns :
    /\ sock[c].state = "closed" /\ sock[c].invoked = 1
    /\ sock[d].state \in {"open", "terminated"} /\ sock[d].invoked = 1
    /\ sock[c].workflowName = sock[d].workflowName
    /\ instances = {ConnectionId(sock[d].workflowName, d)}

\* the step is the upgrade request of connection c
Upgrades(c) == sock[c].state = "none" /\ sock'[c].state # "none"

\* C21: acceptance and resolution agree: a request that shouldHandle lets
\* through resolves to a workflow of the registry, which is called once,
\* with an adapter made for that connection (a websocket of its own, no
\* listeners yet, its entry in instances); the branch that terminates the
\* websocket for want of a workflow is never taken.
C21_AcceptedResolves ==
  /\ [](\A c \in Conns :
         /\ ~(sock[c].state = "terminated" /\ sock[c].invoked = 0)
         /\ (Requested(c)
               /\ shouldHandle(sock[c].registry, strict, sock[c].url)) =>
              /\ Accepted(c)
              /\ sock[c].workflowName \in sock[c].registry
              /\ sock[c].invoked = 1)
  /\ [][\A c \in Conns :
          (Upgrades(c) /\ shouldHandle(workflows, strict, sock'[c].url)) =>
            /\ sock'[c].state = "open"
            /\ websocket'[c]
            /\ emitter'[c] = NoListeners
            /\ ConnectionId(sock'[c].workflowName, c) \in instances'
            /\ ConnectionId(sock'[c].workflowName, c) \notin instances]_vars

\* in strict mode, with no default registered, a request for "a" went to
\* the workflow at "a" while a request for "b", where nothing is
\* registered, was turned away at the handshake
C21_Witness ==
  /\ strict
  /\ \E c, d \in Conns :
       /\ sock[c].state = "open" /\ sock[c].invoked = 1
       /\ sock[c].url = "/a" /\ sock[c].workflowName = PathA
       /\ DEFAULT_WORKFLOW \notin sock[c].registry
       /\ sock[d].state = "rejected" /\ sock[d].url = "/b"
       /\ ConnectionId(PathA, c) \in instances

\* the write of the call in slot r has completed and the call has not
\* settled
WriteCompleted(r) == req[r].phase \in {"written", "pending"}

\* C22: no response is lost between write and registration: the listener
\* is attached only after the write has completed, and a frame with the
\* call's id that is delivered once the write has completed reaches the
\* listener and settles the call; so a call that ended with the timeout
\* error had no frame with its id delivered in its window.
C22_NoResponseLost ==
  /\ [](\A r \in Reqs :
         /\ r \in Attached(msgListeners, "c1") => req[r].phase = "pending"
         /\ req[r].timer = "fired" => ~req[r].seen.any)
  /\ [][\A r \in Reqs :
          (/\ WriteCompleted(r)
           /\ Delivered'
           /\ last'.conn = req[r].conn
           /\ last'.msg.parsed
           /\ last'.msg._id = req[r].id) =>
            /\ r \in last'.settled
            /\ req'[r].outcome.kind # "pending"]_vars

\* the response of one call arrived after its write had completed and
\* resolved it, while the write of the other call was still under way
C22_Witness ==
  /\ Delivered
  /\ \E r, q \in Reqs :
       /\ last.settled = {r}
       /\ last.msg._id = req[r].id
       /\ req[r].outcome = Resolved(Obj(TextParams))
       /\ req[q].phase = "sending"

====
